---- MODULE Spec2Model ----
(***************************************************************************)
(* Model of the SlickRun launcher's window visibility and focus engine     *)
(* (src/src/app.rs, src/src/settings.rs, src/src/commands.rs).             *)
(*                                                                         *)
(* One redraw tick is one call of LauncherApp::update.  The three signal   *)
(* producers (FIFO reader thread, global hotkey listener, tray menu        *)
(* handler) are separate actions that run between ticks.  The handlers are *)
(* operators on a "world" record w that holds the application object, the  *)
(* settings file, the FIFO endpoint, the hotkey event queue and, in w.fx,  *)
(* the external calls and operations the handler has performed so far      *)
(* (calls), the position handed to MoveWindow (moved_to) and the window id *)
(* handed to activate_x11_window_by_id (activated, 0 when not called) and  *)
(* the producers of the signals update has processed, in order (processed).*)
(* w.fx is not part of the state: the claims about what a handler does are *)
(* stated over every input the handler can get in every reachable state.   *)
(***************************************************************************)
EXTENDS Integers, Sequences, FiniteSets, TLC

VARIABLES
    app,            \* the LauncherApp object and the atomics it shares
    disk,           \* content of the settings file (config.json)
    pipe_exists,    \* the FIFO endpoint exists in the file system
    hotkey_events,  \* pending events in GlobalHotKeyEvent::receiver()
    run             \* "running", "closing" (Close requested), "exited"

vars == <<app, disk, pipe_exists, hotkey_events, run>>

(***************************************************************************)
(* Bounds of the model.                                                    *)
(***************************************************************************)
MaxCoord == 1       \* screen coordinates are 0..MaxCoord
MaxHandle == 2      \* X11 window ids the lookup can return are 1..MaxHandle
MaxHotkey == 1      \* hotkey events that can queue up between two ticks
MaxWindow == 5      \* the windows of an X window tree are 2..MaxWindow

(***************************************************************************)
(* Program constants.                                                      *)
(***************************************************************************)
TRAY_NONE == 0
TRAY_TOGGLE == 1
TRAY_SETTINGS == 2
TRAY_QUIT == 3
MaxSearchAttempts == 10

(***************************************************************************)
(* Option<T>: None is the empty tuple, Some(v) the one-element tuple.      *)
(***************************************************************************)
None == <<>>
Some(v) == <<v>>
IsSome(o) == o # None
Unwrap(o) == o[1]

Coords == 0..MaxCoord
\* the positions GetPosition can report: x >= 0, y >= 0, x + y <= MaxCoord
Positions == {p \in Coords \X Coords : p[1] + p[2] <= MaxCoord}
OptPositions == {None} \cup {Some(p) : p \in Positions}
Handles == 1..MaxHandle

(***************************************************************************)
(* `x as f32` for an i32 x >= 0: exact up to 2^24, rounded to a 24-bit     *)
(* mantissa (ties to even) above.  to_bits/from_bits and the JSON text of  *)
(* an f32 are bijective on f32 values, so an f32 is carried as its value;  *)
(* the bit pattern 0 is the value 0.0.                                     *)
(***************************************************************************)
RECURSIVE Ulp(_, _)
Ulp(x, u) == IF x < 16777216 * u THEN u ELSE Ulp(x, 2 * u)

AsF32(x) ==
    LET u == Ulp(x, 1)
        q == x \div u
        r == x % u
    IN  IF 2 * r < u THEN q * u
        ELSE IF 2 * r > u THEN (q + 1) * u
        ELSE IF q % 2 = 0 THEN q * u ELSE (q + 1) * u

\* `v as i32` for an f32 holding a non-negative integer below 2^31
AsI32(v) == v

(***************************************************************************)
(* Settings (settings.rs): the fields the engine reads or writes.          *)
(***************************************************************************)
DefaultSettings ==
    [window_x |-> None, window_y |-> None,
     hide_on_inactive |-> TRUE, stay_on_top |-> TRUE]

\* Settings::load: the parsed file (a missing file is the default record)
Settings_load(d) == d

\* record an external call or an operation of the current step
Emit(w, tag) == [w EXCEPT !.fx.calls = @ \cup {tag}]

NoFx ==
    [calls |-> {}, moved_to |-> None, activated |-> 0, processed |-> <<>>,
     ops |-> <<>>]

\* record, in program order, an operation of the step on the memory or the
\* file that another thread can see: "store_x" and "store_y" (the atomics
\* shared_pos_x, shared_pos_y) and "save" (the write of the settings file)
Shared(w, o, v) == [w EXCEPT !.fx.ops = Append(@, [op |-> o, v |-> v])]

\* record that update takes a signal of the producer src out of its slot
Process(w, src) == [w EXCEPT !.fx.processed = Append(@, src)]

\* Settings::save
\* what the file system does with a write of the settings file: "ok", or
\* the file cannot be opened for writing, or it is truncated and the write
\* of the data fails
FsAnswers == {"ok", "open_fails", "write_fails"}

\* Settings::save: the result of std::fs::write is discarded; a file cut
\* short does not parse, and Settings::load reads it as the default
Settings_save(w, s) ==
    LET w1 == Shared(Emit(w, "save"), "save", s)
    IN  IF w.fs = "ok" THEN [w1 EXCEPT !.disk = s]
        ELSE IF w.fs = "write_fails" THEN [w1 EXCEPT !.disk = DefaultSettings]
        ELSE w1

(***************************************************************************)
(* Inputs of one tick (ctx): what the frame's egui input and the external  *)
(* services answer during this call of update.                             *)
(*   found     result of find_own_x11_window: 0 (None) or a window id      *)
(*   elapsed   last_pos_query.elapsed() > 1 s                              *)
(*   qpos      answer of GetPosition to the poller, None on failure        *)
(*   spos      answer of GetPosition to save_position's fallback query     *)
(*   focused   i.focused                                                   *)
(*   enter, escape   key_pressed(Enter), key_pressed(Escape)               *)
(*   cmd       the committed command line (see Commands)                   *)
(*   w_text    w_dialog_input is not empty                                 *)
(*   pressed   primary_pressed with the pointer outside the text edit      *)
(*             (command bar) or on the top edge (settings mode)            *)
(*   save      the Save & Close button was clicked                         *)
(*   edit_hide, edit_top   the draft's check boxes at that click           *)
(*   close_requested   the viewport reports a close request                *)
(***************************************************************************)

(***************************************************************************)
(* A committed command line: first word, whether arguments follow, and for *)
(* a magic word whether it needs $W$ input (commands.rs needs_w_input).    *)
(***************************************************************************)
Commands ==
    {[first |-> "", args |-> FALSE, needs_w |-> FALSE],
     [first |-> "setup", args |-> FALSE, needs_w |-> FALSE],
     [first |-> "quit", args |-> FALSE, needs_w |-> FALSE],
     [first |-> "magic", args |-> FALSE, needs_w |-> TRUE],
     [first |-> "magic", args |-> TRUE, needs_w |-> TRUE],
     [first |-> "other", args |-> FALSE, needs_w |-> FALSE]}

(***************************************************************************)
(* find_own_x11_window_inner on a window tree of the X server.  Window ids *)
(* are XRoot..MaxWindow; a tree gives every window its parent (query_tree) *)
(* and the root the parent 0; 0 (None) and 1 (PointerRoot) are the focus   *)
(* values that name no window.  The result 0 stands for Ok(None).          *)
(***************************************************************************)
XRoot == 2

XWindows == XRoot..MaxWindow

XTrees ==
    {t \in [XWindows -> 0..MaxWindow] :
        /\ t[XRoot] = 0
        /\ \A w \in XWindows \ {XRoot} : t[w] \in XRoot..(w - 1)}

FocusValues == 0..MaxWindow

\* the loop of find_own_x11_window_inner: <<win, client_window>> at the break
RECURSIVE walk_up(_, _, _)
walk_up(tree, win, client_window) ==
    LET parent == tree[win]
    IN  IF parent = XRoot \/ parent = 0
        THEN <<win, client_window>>
        ELSE walk_up(tree, parent, win)

\* the lookup that returns the window the walk has stopped at
find_own_x11_window_frame(tree, focus) ==
    IF focus <= 1 \/ focus = XRoot
    THEN 0
    ELSE walk_up(tree, focus, focus)[1]

find_own_x11_window_inner(tree, focus) ==
    IF focus <= 1 \/ focus = XRoot
    THEN 0
    ELSE LET at_break == walk_up(tree, focus, focus)
         IN  IF at_break[1] = focus THEN at_break[1] ELSE at_break[2]

(***************************************************************************)
(* activate_x11_window_by_id: the four requests it sends for a window, as  *)
(* their effect on that window's state in the X server and the window      *)
(* manager when the connection works and the requests are carried out.     *)
(* MapWindow, ConfigureWindow(stack_mode = Above) and _NET_ACTIVE_WINDOW    *)
(* each set a property of the window; SetInputFocus gives the focus to a   *)
(* viewable window and fails with BadMatch (unchecked) on any other.       *)
(***************************************************************************)
XWindowStates == [mapped : BOOLEAN, raised : BOOLEAN, active : BOOLEAN, focused : BOOLEAN]

map_window(x) == [x EXCEPT !.mapped = TRUE]

configure_window_above(x) == [x EXCEPT !.raised = TRUE]

send_net_active_window(x) == [x EXCEPT !.active = TRUE]

set_input_focus(x) == IF x.mapped THEN [x EXCEPT !.focused = TRUE] ELSE x

\* the calls of activate_x11_window_by_id_inner that return a Result, in
\* the order of the code; each is followed by `?`
ActivationSteps ==
    <<"connect", "map_window", "configure_window", "intern_atom",
      "send_event", "set_input_focus", "flush">>

\* the calls activate_x11_window_by_id_inner makes when the calls in failing
\* return Err: the first of them ends the function
RECURSIVE activation_attempts(_, _)
activation_attempts(failing, i) ==
    IF i > Len(ActivationSteps) THEN {}
    ELSE IF ActivationSteps[i] \in failing THEN {ActivationSteps[i]}
    ELSE {ActivationSteps[i]} \cup activation_attempts(failing, i + 1)

\* the activation with the focus request sent first
activate_x11_focus_first(x) ==
    send_net_active_window(configure_window_above(map_window(set_input_focus(x))))

\* activate_x11_window_by_id_inner
activate_x11_window_by_id(x) ==
    set_input_focus(send_net_active_window(configure_window_above(map_window(x))))

\* save_position with the cached x written to both fields
save_position_copies_x(w, ctx) ==
    LET cached == w.app.last_known_pos
    IN  IF IsSome(cached)
        THEN LET x == Unwrap(cached)[1]
                 w2 == [w EXCEPT !.app.settings.window_x = Some(x),
                                 !.app.settings.window_y = Some(x),
                                 !.app.shared_pos_x = x,
                                 !.app.shared_pos_y = x]
             IN  Settings_save(w2, w2.app.settings)
        ELSE Emit(w, "fresh_query")

\* the calls of a tick that run a helper process with output(), which
\* returns when the process has ended: get_mutter_window_position in the
\* poller and in save_position, and the move to the saved position
BlockingCalls == {"poll_query", "fresh_query", "MoveWindow_blocking"}

\* save_position that falls back to the origin when no position is known
save_position_or_origin(w, ctx) ==
    LET cached == w.app.last_known_pos
        w1 == IF IsSome(cached) THEN w ELSE Emit(w, "fresh_query")
        pos == IF IsSome(cached) THEN Unwrap(cached)
               ELSE IF IsSome(ctx.spos)
                    THEN <<AsF32(Unwrap(ctx.spos)[1]), AsF32(Unwrap(ctx.spos)[2])>>
                    ELSE <<0, 0>>
        w2 == [w1 EXCEPT !.app.settings.window_x = Some(pos[1]),
                         !.app.settings.window_y = Some(pos[2]),
                         !.app.shared_pos_x = pos[1],
                         !.app.shared_pos_y = pos[2]]
    IN  Settings_save(w2, w2.app.settings)

\* LauncherApp::save_position
save_position(w, ctx) ==
    LET cached == w.app.last_known_pos
        w1 == IF IsSome(cached) THEN w ELSE Emit(w, "fresh_query")
        pos == IF IsSome(cached) THEN cached
               ELSE IF IsSome(ctx.spos)
                    THEN Some(<<AsF32(Unwrap(ctx.spos)[1]), AsF32(Unwrap(ctx.spos)[2])>>)
                    ELSE None
    IN  IF IsSome(pos)
        THEN LET x == Unwrap(pos)[1]
                 y == Unwrap(pos)[2]
                 w2 == [w1 EXCEPT !.app.settings.window_x = Some(x),
                                  !.app.settings.window_y = Some(y),
                                  !.app.shared_pos_x = x,
                                  !.app.shared_pos_y = y]
                 w3 == Shared(Shared(w2, "store_x", x), "store_y", y)
             IN  Settings_save(w3, w3.app.settings)
        ELSE w1

\* quit that leaves the FIFO in the file system
quit_keeps_pipe(w, ctx) ==
    [Emit(Emit(save_position(w, ctx), "quit"), "Close") EXCEPT !.run = "closing"]

\* LauncherApp::quit
quit(w, ctx) ==
    LET w1 == save_position(w, ctx)
    IN  [Emit(Emit(w1, "quit"), "Close") EXCEPT
            !.pipe_exists = FALSE,
            !.run = "closing"]

\* LauncherApp::hide
hide(w, ctx) ==
    LET w1 == save_position(w, ctx)
    IN  [Emit(w1, "hide") EXCEPT !.app.is_visible = FALSE]

\* show that asks the compositor only and never the X server
show_compositor_only(w, ctx) ==
    [w EXCEPT !.app.is_visible = TRUE,
              !.app.was_focused = FALSE,
              !.fx.calls = @ \cup {"show", "OuterPosition", "Focus", "MoveWindow",
                                   "Activate"}]

\* show that calls the X11 activation without testing the stored id
show_activates_unresolved(w, ctx) ==
    LET s == w.app.settings
        saved == ~w.app.settings_open /\ IsSome(s.window_x) /\ IsSome(s.window_y)
    IN  [w EXCEPT !.app.is_visible = TRUE,
                  !.app.was_focused = FALSE,
                  !.fx.moved_to = IF saved
                                  THEN Some(<<AsI32(Unwrap(s.window_x)),
                                              AsI32(Unwrap(s.window_y))>>)
                                  ELSE None,
                  !.fx.activated = w.app.x11_window_id,
                  !.fx.calls = @ \cup {"show", "OuterPosition", "Focus", "MoveWindow",
                                       "Activate", "x11_activate"}]

\* show that leaves the focus bookkeeping as it is
show_keeps_was_focused(w, ctx) ==
    LET s == w.app.settings
        saved == ~w.app.settings_open /\ IsSome(s.window_x) /\ IsSome(s.window_y)
        wid == w.app.x11_window_id
    IN  [w EXCEPT !.app.is_visible = TRUE,
                  !.fx.moved_to = IF saved
                                  THEN Some(<<AsI32(Unwrap(s.window_x)),
                                              AsI32(Unwrap(s.window_y))>>)
                                  ELSE None,
                  !.fx.activated = IF wid # 0 THEN wid ELSE @,
                  !.fx.calls = @ \cup {"show", "OuterPosition", "Focus", "MoveWindow", "Activate"}
                                 \cup (IF saved THEN {} ELSE {"centered"})
                                 \cup (IF s.stay_on_top THEN {"WindowLevel"} ELSE {})
                                 \cup (IF s.stay_on_top /\ wid # 0
                                       THEN {"x11_always_on_top"} ELSE {})
                                 \cup (IF wid # 0 THEN {"x11_activate"} ELSE {})]

\* show that restores the saved position also while the panel is open
show_ignores_panel(w, ctx) ==
    LET s == w.app.settings
        saved == IsSome(s.window_x) /\ IsSome(s.window_y)
        wid == w.app.x11_window_id
    IN  [w EXCEPT !.app.is_visible = TRUE,
                  !.app.was_focused = FALSE,
                  !.fx.moved_to = IF saved
                                  THEN Some(<<AsI32(Unwrap(s.window_x)),
                                              AsI32(Unwrap(s.window_y))>>)
                                  ELSE None,
                  !.fx.activated = IF wid # 0 THEN wid ELSE @,
                  !.fx.calls = @ \cup {"show", "OuterPosition", "Focus", "MoveWindow", "Activate"}
                                 \cup (IF saved THEN {} ELSE {"centered"})
                                 \cup (IF s.stay_on_top THEN {"WindowLevel"} ELSE {})
                                 \cup (IF s.stay_on_top /\ wid # 0
                                       THEN {"x11_always_on_top"} ELSE {})
                                 \cup (IF wid # 0 THEN {"x11_activate"} ELSE {})]

\* LauncherApp::show
show(w, ctx) ==
    LET s == w.app.settings
        saved == ~w.app.settings_open /\ IsSome(s.window_x) /\ IsSome(s.window_y)
        w1 == [w EXCEPT !.app.is_visible = TRUE,
                        !.fx.moved_to = IF saved
                                        THEN Some(<<AsI32(Unwrap(s.window_x)),
                                                    AsI32(Unwrap(s.window_y))>>)
                                        ELSE None,
                        !.fx.calls = @ \cup {"show", "OuterPosition", "Focus", "MoveWindow"}
                                       \cup (IF saved THEN {} ELSE {"centered"})]
        wid == w.app.x11_window_id
        w2 == IF s.stay_on_top
              THEN [w1 EXCEPT !.fx.calls = @ \cup {"WindowLevel"}
                                  \cup (IF wid # 0 THEN {"x11_always_on_top"} ELSE {})]
              ELSE w1
        w3 == [w2 EXCEPT !.app.was_focused = FALSE]
        w4 == Emit(w3, "Activate")
    IN  IF wid # 0
        THEN [Emit(w4, "x11_activate") EXCEPT !.fx.activated = wid]
        ELSE w4

\* toggle_visibility that shows the window whatever the flag says
toggle_visibility_shows(w, ctx) == show(Emit(w, "toggle"), ctx)

\* LauncherApp::toggle_visibility
toggle_visibility(w, ctx) ==
    IF w.app.is_visible THEN hide(Emit(w, "toggle"), ctx) ELSE show(Emit(w, "toggle"), ctx)

\* SettingsWindow::open
SettingsWindow_open(w) ==
    [w EXCEPT !.app.draft = w.app.settings, !.app.settings_open = TRUE]

\* LauncherApp::apply_settings
apply_settings(w, new_settings) ==
    LET w1 == [w EXCEPT !.app.settings = new_settings]
    IN  Emit(Settings_save(w1, w1.app.settings), "apply_settings")

\* execute_command that opens the prompt and hides like any other command
execute_command_hides(w, ctx) ==
    LET c == ctx.cmd
    IN  IF c.first = "" THEN w
        ELSE IF c.first = "setup" THEN SettingsWindow_open(w)
        ELSE IF c.first = "quit" THEN quit(w, ctx)
        ELSE IF c.first = "magic" /\ ~c.args /\ c.needs_w
             THEN hide([Emit(w, "prompt_opened") EXCEPT !.app.pending_w = TRUE], ctx)
        ELSE hide(Emit(w, "command_run"), ctx)

\* LauncherApp::execute_command
execute_command(w, ctx) ==
    LET c == ctx.cmd
    IN  IF c.first = "" THEN w
        ELSE IF c.first = "setup" THEN SettingsWindow_open(w)
        ELSE IF c.first = "quit" THEN quit(w, ctx)
        ELSE IF c.first = "magic" /\ ~c.args /\ c.needs_w
             THEN [Emit(w, "prompt_opened") EXCEPT !.app.pending_w = TRUE]
        ELSE hide(Emit(w, "command_run"), ctx)

(***************************************************************************)
(* LauncherApp::update, in the order of the code.                          *)
(***************************************************************************)

\* the lookup repeated on every one of the first frames
update_locate_repeated(w, ctx) ==
    IF w.app.x11_search_attempts < MaxSearchAttempts
    THEN LET w1 == [Emit(w, "lookup") EXCEPT !.app.x11_search_attempts = @ + 1]
         IN  IF ctx.found # 0
             THEN [w1 EXCEPT !.app.x11_window_id = ctx.found]
             ELSE w1
    ELSE w

\* the lookup retried on every frame until it succeeds
update_locate_unbounded(w, ctx) ==
    IF w.app.x11_window_id = 0
    THEN LET w1 == [Emit(w, "lookup") EXCEPT !.app.x11_search_attempts = @ + 1]
         IN  IF ctx.found # 0
             THEN [w1 EXCEPT !.app.x11_window_id = ctx.found]
             ELSE w1
    ELSE w

\* update: store the X11 window id on the first frames
update_locate(w, ctx) ==
    IF w.app.x11_window_id = 0 /\ w.app.x11_search_attempts < MaxSearchAttempts
    THEN LET w1 == [Emit(w, "lookup") EXCEPT !.app.x11_search_attempts = @ + 1]
         IN  IF ctx.found # 0
             THEN LET w2 == [w1 EXCEPT !.app.x11_window_id = ctx.found]
                  IN  IF w2.app.settings.stay_on_top
                      THEN Emit(w2, "x11_always_on_top")
                      ELSE w2
             ELSE w1
    ELSE w

\* update: track the window position while visible
update_poll(w, ctx) ==
    IF w.app.is_visible
    THEN LET should_query == ~IsSome(w.app.last_known_pos) \/ ctx.elapsed
         IN  IF should_query
             THEN LET w1 == Emit(w, "poll_query")
                  IN  IF IsSome(ctx.qpos)
                      THEN LET x == AsF32(Unwrap(ctx.qpos)[1])
                               y == AsF32(Unwrap(ctx.qpos)[2])
                               w2 == [w1 EXCEPT !.app.last_known_pos = Some(<<x, y>>),
                                                !.app.shared_pos_x = x,
                                                !.app.shared_pos_y = y]
                           IN  Shared(Shared(w2, "store_x", x), "store_y", y)
                      ELSE w1
             ELSE w
    ELSE w

\* the FIFO flag read with a load, which leaves it set
update_pipe_load(w, ctx) ==
    IF w.app.toggle_signal
    THEN toggle_visibility(Process(w, "pipe"), ctx)
    ELSE w

\* update: the FIFO flag
update_pipe(w, ctx) ==
    IF w.app.toggle_signal
    THEN toggle_visibility(
            Process([w EXCEPT !.app.toggle_signal = FALSE], "pipe"), ctx)
    ELSE w

\* update: drain the hotkey event queue, one toggle per event
RECURSIVE update_hotkeys(_, _)
update_hotkeys(w, ctx) ==
    IF w.hotkey_events > 0
    THEN update_hotkeys(
            toggle_visibility(
                Process([w EXCEPT !.hotkey_events = @ - 1], "hotkey"), ctx), ctx)
    ELSE w

\* update: the tray action slot
update_tray(w, ctx) ==
    LET action == w.app.tray_action
        w0 == [w EXCEPT !.app.tray_action = TRAY_NONE]
        w1 == IF action = TRAY_NONE THEN w0 ELSE Process(w0, "tray")
    IN  IF action = TRAY_TOGGLE THEN toggle_visibility(w1, ctx)
        ELSE IF action = TRAY_SETTINGS THEN SettingsWindow_open(show(w1, ctx))
        ELSE IF action = TRAY_QUIT THEN quit(show(w1, ctx), ctx)
        ELSE w1

\* initial move that leaves its flag set
update_initial_move_repeats(w, ctx) ==
    IF w.app.needs_initial_move /\ ctx.focused
    THEN LET s == w.app.settings
         IN  IF IsSome(s.window_x) /\ IsSome(s.window_y)
             THEN Emit(w, "MoveWindow_blocking")
             ELSE w
    ELSE w

\* update: restore the saved position on first focus (blocking call)
update_initial_move(w, ctx) ==
    IF w.app.needs_initial_move /\ ctx.focused
    THEN LET w1 == [w EXCEPT !.app.needs_initial_move = FALSE]
             s == w1.app.settings
         IN  IF IsSome(s.window_x) /\ IsSome(s.window_y)
             THEN Emit(w1, "MoveWindow_blocking")
             ELSE w1
    ELSE w

\* drag end that keeps the window in the dragging state
update_drag_end_keeps_dragging(w, ctx) ==
    IF w.app.dragging /\ ~w.app.was_focused /\ ctx.focused
    THEN [Emit(w, "drag_end_focus") EXCEPT !.app.was_focused = TRUE]
    ELSE w

\* update: drag end detection
update_drag_end(w, ctx) ==
    IF w.app.dragging /\ ~w.app.was_focused /\ ctx.focused
    THEN [Emit(w, "drag_end_focus") EXCEPT !.app.dragging = FALSE,
                                           !.app.was_focused = TRUE]
    ELSE w

\* auto-hide that minimizes the window without persisting its position
update_auto_hide_unsaved(w, ctx) ==
    LET a == w.app
    IN  IF a.settings.hide_on_inactive /\ a.is_visible /\ ~a.settings_open
           /\ ~a.dragging /\ ~a.pending_w /\ a.was_focused /\ ~ctx.focused
        THEN [Emit(Emit(w, "auto_hide"), "hide") EXCEPT !.app.is_visible = FALSE]
        ELSE w

\* auto-hide that is not suppressed while dragging
update_auto_hide_in_drag(w, ctx) ==
    LET a == w.app
    IN  IF a.settings.hide_on_inactive /\ a.is_visible /\ ~a.settings_open
           /\ ~a.pending_w
        THEN IF a.was_focused /\ ~ctx.focused
             THEN hide(Emit(w, "auto_hide"), ctx)
             ELSE w
        ELSE w

\* auto-hide that does not read the hide_on_inactive setting
update_auto_hide_always(w, ctx) ==
    LET a == w.app
    IN  IF a.is_visible /\ ~a.settings_open /\ ~a.dragging /\ ~a.pending_w
        THEN IF a.was_focused /\ ~ctx.focused
             THEN hide(Emit(w, "auto_hide"), ctx)
             ELSE w
        ELSE w

\* update: auto-hide on focus loss
update_auto_hide(w, ctx) ==
    LET a == w.app
    IN  IF a.settings.hide_on_inactive /\ a.is_visible /\ ~a.settings_open
           /\ ~a.dragging /\ ~a.pending_w
        THEN IF a.was_focused /\ ~ctx.focused
             THEN hide(Emit(w, "auto_hide"), ctx)
             ELSE w
        ELSE w

\* update: remember the focus state of this tick
update_was_focused(w, ctx) == [w EXCEPT !.app.was_focused = ctx.focused]

\* SettingsWindow::show_in_viewport: the new open flag and the saved draft
show_in_viewport(w, ctx) ==
    [w EXCEPT !.app.settings_open =
                 IF ctx.save \/ ctx.close_requested THEN FALSE ELSE @]

Draft(w, ctx) ==
    [w.app.draft EXCEPT !.hide_on_inactive = ctx.edit_hide,
                        !.stay_on_top = ctx.edit_top]

\* update: settings mode
update_settings_mode(w, ctx) ==
    IF ctx.escape
    THEN [Emit(w, "key") EXCEPT !.app.settings_open = FALSE]
    ELSE LET w1 == show_in_viewport(w, ctx)
             w2 == IF ctx.save
                   THEN apply_settings(
                            [Emit(w1, "key") EXCEPT !.app.draft = Draft(w, ctx)],
                            Draft(w, ctx))
                   ELSE w1
         IN  IF ctx.pressed THEN Emit(Emit(w2, "key"), "StartDrag") ELSE w2

\* update: the $W$ parameter dialog
update_w_dialog(w, ctx) ==
    IF ctx.enter /\ ctx.w_text
    THEN hide([Emit(Emit(w, "key"), "prompt_done") EXCEPT !.app.pending_w = FALSE], ctx)
    ELSE IF ctx.escape
    THEN [Emit(w, "key") EXCEPT !.app.pending_w = FALSE]
    ELSE w

\* update: the command bar
update_command_bar(w, ctx) ==
    LET w1 == IF ctx.enter THEN execute_command(Emit(w, "key"), ctx) ELSE w
        w2 == IF ctx.escape THEN hide(Emit(Emit(w1, "key"), "escape_hide"), ctx) ELSE w1
    IN  IF ctx.pressed
        THEN [Emit(Emit(w2, "key"), "StartDrag") EXCEPT !.app.dragging = TRUE]
        ELSE w2

\* update up to and including the position poll
update_to_poll(w, ctx) == update_poll(update_locate(w, ctx), ctx)

\* update up to and including the FIFO flag
update_to_pipe(w, ctx) == update_pipe(update_to_poll(w, ctx), ctx)

\* update up to and including the tray action slot
update_to_tray(w, ctx) ==
    update_tray(update_hotkeys(update_to_pipe(w, ctx), ctx), ctx)

\* update up to and including the drag end detection
update_to_drag_end(w, ctx) ==
    update_drag_end(update_initial_move(update_to_tray(w, ctx), ctx), ctx)

\* update up to and including the focus bookkeeping
update_head(w, ctx) ==
    update_was_focused(update_auto_hide(update_to_drag_end(w, ctx), ctx), ctx)

\* the mode the frame is drawn in: settings panel, $W$ prompt or command bar
update_mode(h, ctx) ==
    IF h.app.settings_open THEN update_settings_mode(h, ctx)
    ELSE IF h.app.pending_w THEN update_w_dialog(h, ctx)
    ELSE update_command_bar(h, ctx)

\* LauncherApp::update
update(w, ctx) == update_mode(update_head(w, ctx), ctx)

\* update from the hotkey queue on (what follows the swap of the FIFO flag)
update_after_pipe(w, ctx) ==
    update_mode(
        update_was_focused(
            update_auto_hide(
                update_drag_end(
                    update_initial_move(
                        update_tray(update_hotkeys(w, ctx), ctx), ctx), ctx), ctx), ctx), ctx)

(***************************************************************************)
(* The tray menu handler (runs on the event pump thread).                  *)
(***************************************************************************)
MenuIds == {"quit", "show_hide", "settings"}

tray_menu_handler(w, id) ==
    IF id = "quit"
    THEN LET x == w.app.shared_pos_x
             y == w.app.shared_pos_y
             w1 == IF x # 0 \/ y # 0
                   THEN LET s == [Settings_load(w.disk) EXCEPT !.window_x = Some(x),
                                                               !.window_y = Some(y)]
                        IN  Settings_save(w, s)
                   ELSE w
         IN  [Emit(w1, "tray_quit") EXCEPT !.pipe_exists = FALSE, !.run = "exited"]
    ELSE LET action == IF id = "show_hide" THEN TRAY_TOGGLE
                       ELSE IF id = "settings" THEN TRAY_SETTINGS
                       ELSE TRAY_NONE
             wid == w.app.x11_window_id
             w1 == IF wid # 0
                   THEN [Emit(w, "x11_activate") EXCEPT !.fx.activated = wid]
                   ELSE w
         IN  [w1 EXCEPT !.app.tray_action = action]

(***************************************************************************)
(* The "quit" arm of the tray menu handler, step by step, while the frame  *)
(* loop is inside update.  The handler runs on the event pump thread and   *)
(* shares with update the two atomics shared_pos_x, shared_pos_y and the   *)
(* settings file; no lock covers either pair of accesses.  The handler has *)
(* four steps on them: 1 load x, 2 load y and test, 3 Settings::load,      *)
(* 4 set window_x, window_y and save; then it removes the FIFO and calls   *)
(* process::exit, which ends update wherever it is.  A schedule t gives    *)
(* for each step the number t[i] of operations of update (ops, in program  *)
(* order) that come before it.                                             *)
(***************************************************************************)
\* the schedules of the handler's steps among n operations of update
Schedules(n) ==
    UNION {UNION {UNION {{<<a, b, c, d>> : d \in c..n} : c \in b..n} : b \in a..n} :
              a \in 0..n}

\* what the operations of the given kind among ops[1..k] have written last;
\* init when there is none
LastWritten(ops, k, kind, init) ==
    LET at == {i \in 1..k : ops[i].op = kind}
    IN  IF at = {} THEN init ELSE ops[CHOOSE i \in at : \A j \in at : j <= i].v

\* the handler run under schedule t from the state w: its locals hx, hy,
\* whether it has called save, and the file at the exit; tick_saved is what
\* update has written to the file last
quit_racing(w, ops, t) ==
    LET hx == LastWritten(ops, t[1], "store_x", w.app.shared_pos_x)
        hy == LastWritten(ops, t[2], "store_y", w.app.shared_pos_y)
        s == Settings_load(LastWritten(ops, t[3], "save", w.disk))
        tick_saved == LastWritten(ops, t[4], "save", w.disk)
    IN  [hx |-> hx, hy |-> hy,
         wrote |-> (hx # 0 \/ hy # 0),
         disk |-> IF hx # 0 \/ hy # 0
                  THEN [s EXCEPT !.window_x = Some(hx), !.window_y = Some(hy)]
                  ELSE tick_saved,
         tick_saved |-> tick_saved]

(***************************************************************************)
(* State machine.                                                          *)
(***************************************************************************)
World ==
    [app |-> app, disk |-> disk, pipe_exists |-> pipe_exists,
     hotkey_events |-> hotkey_events, run |-> run, fs |-> "ok", fx |-> NoFx]

Commit(w) ==
    /\ app' = w.app
    /\ disk' = w.disk
    /\ pipe_exists' = w.pipe_exists
    /\ hotkey_events' = w.hotkey_events
    /\ run' = w.run

\* LauncherApp::new, after start_toggle_pipe_listener created the FIFO
InitApp(s) ==
    [is_visible |-> TRUE, was_focused |-> FALSE, dragging |-> FALSE,
     settings |-> s, settings_open |-> FALSE, draft |-> s,
     pending_w |-> FALSE, toggle_signal |-> FALSE, tray_action |-> TRAY_NONE,
     x11_window_id |-> 0, x11_search_attempts |-> 0,
     shared_pos_x |-> 0, shared_pos_y |-> 0, last_known_pos |-> None,
     needs_initial_move |-> IsSome(s.window_x) /\ IsSome(s.window_y)]

\* the settings file at startup: absent (defaults), or holding the position
\* an earlier run has saved
InitDisks ==
    {DefaultSettings,
     [DefaultSettings EXCEPT !.window_x = Some(MaxCoord), !.window_y = Some(0)]}

Init ==
    /\ disk \in InitDisks
    /\ app = InitApp(Settings_load(disk))
    /\ pipe_exists = TRUE
    /\ hotkey_events = 0
    /\ run = "running"

BaseCtx ==
    [found |-> 0, elapsed |-> FALSE, qpos |-> None, spos |-> None,
     focused |-> FALSE, enter |-> FALSE, escape |-> FALSE,
     cmd |-> CHOOSE c \in Commands : c.first = "",
     w_text |-> FALSE, pressed |-> FALSE, save |-> FALSE,
     edit_hide |-> FALSE, edit_top |-> FALSE, close_requested |-> FALSE]

\* find_own_x11_window is called in the tick that starts in this state
LookupAttempted == "lookup" \in update_locate(World, BaseCtx).fx.calls

(***************************************************************************)
(* The inputs of a tick.  Found is the set of answers the window lookup    *)
(* can give and Pos the set of answers GetPosition can give in the         *)
(* environment at hand; an input that the code does not read in the        *)
(* current state keeps its value of BaseCtx.                               *)
(***************************************************************************)
HeadInputs(Found, Pos) ==
    LET cached == IsSome(app.last_known_pos)
        polls == IF ~app.is_visible THEN {<<FALSE, None>>}
                 ELSE IF cached THEN {<<FALSE, None>>} \cup ({TRUE} \X Pos)
                 ELSE {FALSE} \X Pos
    IN  {[BaseCtx EXCEPT !.found = f, !.elapsed = q[1], !.qpos = q[2], !.focused = fo,
                         !.close_requested = (run = "closing")] :
            f \in (IF LookupAttempted THEN Found ELSE {0}),
            q \in polls,
            fo \in BOOLEAN}

\* the key, pointer and button inputs of the mode the tick ends in
ModeInputsOf(h, c) ==
    IF h.app.settings_open
    THEN {[c EXCEPT !.escape = TRUE]}
         \cup {[c EXCEPT !.pressed = p] : p \in BOOLEAN}
         \cup {[c EXCEPT !.save = TRUE, !.edit_hide = eh, !.edit_top = et] :
                 eh \in BOOLEAN, et \in BOOLEAN}
    ELSE IF h.app.pending_w
    THEN {[c EXCEPT !.enter = e, !.w_text = e, !.escape = x] :
             e \in BOOLEAN, x \in BOOLEAN}
    ELSE {[c EXCEPT !.escape = x, !.pressed = p] : x \in BOOLEAN, p \in BOOLEAN}
         \cup {[c EXCEPT !.enter = TRUE, !.cmd = k, !.escape = x, !.pressed = p] :
                 k \in Commands, x \in BOOLEAN, p \in BOOLEAN}

ModeInputs(c) == ModeInputsOf(update_head(World, c), c)

\* the answers of the fallback position query, where one is made (only
\* with no position cached after the poll)
SaveInputs(c, Pos) ==
    IF /\ ~IsSome(update_to_poll(World, c).app.last_known_pos)
       /\ "fresh_query" \in update(World, c).fx.calls
    THEN {[c EXCEPT !.spos = s] : s \in Pos}
    ELSE {c}

\* every input a tick can get in the current state
TickInputs(Found, Pos) ==
    UNION {UNION {SaveInputs(c1, Pos) : c1 \in ModeInputs(c0)} :
              c0 \in HeadInputs(Found, Pos)}

\* one call of update by the frame loop; the frame that reports the close
\* request is the last one
frame(w, ctx) ==
    [update(w, ctx) EXCEPT !.run = IF w.run = "closing" THEN "exited" ELSE @]

(***************************************************************************)
(* Spec: the visibility and focus engine with every signal producer and    *)
(* every key, pointer and button input.  The X server reports the window   *)
(* of this application on the first frame (the case find_own_x11_window is *)
(* written for), and the compositor extension is not active (the state of  *)
(* a first run, see install_gnome_shell_extension), so GetPosition fails.  *)
(* Window ids and positions are never read by the visibility and focus     *)
(* logic: they select X11 calls and values written to the settings.        *)
(* SpecPosition and SpecLocator are the environments with every answer of  *)
(* GetPosition and of the window lookup.                                   *)
(***************************************************************************)
\* the window id of this application's window
OwnWindow == CHOOSE h \in Handles : TRUE

Inputs == TickInputs({OwnWindow}, {None})

\* one redraw tick
Tick ==
    /\ run \in {"running", "closing"}
    /\ \E c \in Inputs : Commit(frame(World, c))

\* start_toggle_pipe_listener: the reader thread has read a write
pipe_listener_read(w) == [w EXCEPT !.app.toggle_signal = TRUE]

\* the hotkey listener queues an event for the registered hotkey
hotkey_listener_event(w) == [w EXCEPT !.hotkey_events = @ + 1]

\* the FIFO reader thread received a write
PipeWrite ==
    /\ run # "exited"
    /\ pipe_exists
    /\ Commit(pipe_listener_read(World))

\* the hotkey listener queued an event for the registered hotkey
HotkeyPress ==
    /\ run # "exited"
    /\ hotkey_events < MaxHotkey
    /\ Commit(hotkey_listener_event(World))

\* a tray menu item was chosen
TrayMenuEvent ==
    /\ run # "exited"
    /\ \E id \in MenuIds : Commit(tray_menu_handler(World, id))

Next == Tick \/ PipeWrite \/ HotkeyPress \/ TrayMenuEvent

Spec == Init /\ [][Next]_vars

(***************************************************************************)
(* SpecPosition: the position tracker with every answer of GetPosition.    *)
(* The user commits setup, quit and shell commands, presses Escape and     *)
(* uses the settings panel, but does not drag the window, runs no magic    *)
(* word and leaves the two check boxes of the panel checked; signals come  *)
(* from the FIFO and the tray's Quit item.                                 *)
(***************************************************************************)
PositionUi(c) ==
    /\ ~c.pressed
    /\ c.enter => c.cmd.first \in {"setup", "quit", "other"}
    /\ c.save => (c.edit_hide /\ c.edit_top)

PositionInputs == {c \in TickInputs({OwnWindow}, OptPositions) : PositionUi(c)}

TickPosition ==
    /\ run \in {"running", "closing"}
    /\ \E c \in PositionInputs : Commit(frame(World, c))

\* the tray's Quit item was chosen
TrayQuit ==
    /\ run # "exited"
    /\ Commit(tray_menu_handler(World, "quit"))

NextPosition == TickPosition \/ PipeWrite \/ TrayQuit

SpecPosition == Init /\ [][NextPosition]_vars

(***************************************************************************)
(* SpecLocator: the window locator with every answer of the lookup on      *)
(* every attempt (not found, or any window id).  Signals come from all     *)
(* three producers; the only key the user presses is Escape.               *)
(***************************************************************************)
LocatorUi(c) == ~c.enter /\ ~c.pressed /\ ~c.save

LocatorInputs == {c \in TickInputs({0} \cup Handles, {None}) : LocatorUi(c)}

TickLocator ==
    /\ run \in {"running", "closing"}
    /\ \E c \in LocatorInputs : Commit(frame(World, c))

NextLocator == TickLocator \/ PipeWrite \/ HotkeyPress \/ TrayMenuEvent

SpecLocator == Init /\ [][NextLocator]_vars

(***************************************************************************)
(* SpecStartup: the process from the call of LauncherApp::new, with every  *)
(* answer of the services the constructor calls: the creation of the       *)
(* hotkey manager, the registration of the hotkey and mkfifo.  A panic in  *)
(* the constructor ends the process (run = "panicked").  After the         *)
(* construction the user acts as in Spec and signals come from the FIFO.   *)
(***************************************************************************)
StartupEnvs == [manager_ok : BOOLEAN, register_ok : BOOLEAN, mkfifo_ok : BOOLEAN]

\* LauncherApp::new
LauncherApp_new(w, env) ==
    IF ~env.manager_ok
    THEN [w EXCEPT !.run = "panicked"]
    ELSE [w EXCEPT !.app = InitApp(Settings_load(w.disk)),
                   !.pipe_exists = env.mkfifo_ok,
                   !.run = "running"]

InitStartup ==
    /\ disk \in InitDisks
    /\ app = InitApp(Settings_load(disk))
    /\ pipe_exists = FALSE
    /\ hotkey_events = 0
    /\ run = "starting"

\* eframe calls the app creator
New ==
    /\ run = "starting"
    /\ \E env \in StartupEnvs : Commit(LauncherApp_new(World, env))

NextStartup == New \/ Tick \/ PipeWrite

SpecStartup == InitStartup /\ [][NextStartup]_vars

(***************************************************************************)
(* SpecDisk: SpecPosition on a file system where any write of the settings *)
(* file can fail.                                                          *)
(***************************************************************************)
TickDisk ==
    /\ run \in {"running", "closing"}
    /\ \E c \in PositionInputs, f \in FsAnswers :
        Commit(frame([World EXCEPT !.fs = f], c))

TrayQuitDisk ==
    /\ run # "exited"
    /\ \E f \in FsAnswers : Commit(tray_menu_handler([World EXCEPT !.fs = f], "quit"))

NextDisk == TickDisk \/ PipeWrite \/ TrayQuitDisk

SpecDisk == Init /\ [][NextDisk]_vars

(***************************************************************************)
(* SpecRace: the threads that share memory with update, under every       *)
(* schedule: the tray's Quit handler and the FIFO reader run while update  *)
(* runs.  GetPosition gives every answer; the user opens the settings      *)
(* panel with setup, edits its "hide on inactive" check box and saves;     *)
(* toggles come from the FIFO.                                             *)
(***************************************************************************)
\* the answers of GetPosition: the window is in one of two corners
RacePositions == {Some(<<0, MaxCoord>>), Some(<<MaxCoord, 0>>)}

\* the keys and buttons of a tick: none, the setup command committed, or
\* Save & Close clicked with the check box as edited
RaceKeys ==
    {BaseCtx,
     [BaseCtx EXCEPT !.enter = TRUE, !.cmd = CHOOSE k \in Commands : k.first = "setup"]}
    \cup {[BaseCtx EXCEPT !.save = TRUE, !.edit_top = TRUE, !.edit_hide = eh] :
             eh \in BOOLEAN}

\* the inputs of a tick; update reads of them what its state asks for
RaceInputs ==
    {[k EXCEPT !.found = OwnWindow, !.elapsed = q[1], !.qpos = q[2], !.spos = sp,
               !.focused = fo] :
        k \in RaceKeys,
        q \in {<<FALSE, None>>} \cup ({TRUE} \X RacePositions),
        sp \in RacePositions,
        fo \in BOOLEAN}

TickRace ==
    /\ run \in {"running", "closing"}
    /\ \E c \in RaceInputs : Commit(frame(World, c))

\* the outcomes when Quit is chosen during the tick with input c, for every
\* schedule (u ranges over the one result of the tick)
QuitDuring(c) ==
    UNION {{quit_racing(World, u.fx.ops, t) : t \in Schedules(Len(u.fx.ops))} :
              u \in {update(World, c)}}

\* the tray's Quit item is chosen during a tick: the process exits with the
\* file as the two threads have left it
TrayQuitRacing ==
    /\ run = "running"
    /\ \E c \in RaceInputs : \E m \in QuitDuring(c) :
          /\ disk' = m.disk
          /\ pipe_exists' = FALSE
          /\ run' = "exited"
          /\ UNCHANGED <<app, hotkey_events>>

\* the FIFO reader thread stores the flag, if it is its turn
store_if(w, turn) == IF turn THEN pipe_listener_read(w) ELSE w

\* update while the FIFO reader thread stores true into toggle_signal.  The
\* flag is read by update only in the swap, so the schedules are two: the
\* store comes before the swap (early), or after it.
update_store_racing(w, ctx, early) ==
    update_after_pipe(
        store_if(update_pipe(store_if(update_to_poll(w, ctx), early), ctx), ~early),
        ctx)

\* the FIFO reader thread stores the flag during a tick
PipeWriteRacing ==
    /\ run = "running"
    /\ pipe_exists
    /\ \E c \in RaceInputs, early \in BOOLEAN :
          Commit(update_store_racing(World, c, early))

NextRace == TickRace \/ PipeWrite \/ PipeWriteRacing \/ TrayQuitRacing

SpecRace == Init /\ [][NextRace]_vars

(***************************************************************************)
(* Properties.  A property of what a tick does is stated in the state the  *)
(* tick starts in, over every input the tick can get there.                *)
(***************************************************************************)
Live == run # "exited"

\* toggle signals waiting for the next tick: FIFO flag, hotkey events, tray
ToggleSignals ==
    (IF app.toggle_signal THEN 1 ELSE 0) + hotkey_events
        + (IF app.tray_action = TRAY_TOGGLE THEN 1 ELSE 0)

\* no key, pointer press or button click in the tick
Quiet(c) == ~c.enter /\ ~c.escape /\ ~c.pressed /\ ~c.save

PersistedPos(d) == <<d.window_x, d.window_y>>

\* C1: a tick that gets exactly one ToggleVisibility signal (FIFO flag, one
\* hotkey event or the tray's show_hide) and no other signal or key flips
\* the visibility flag and uses the signal up, whatever the focus does; so
\* N such ticks from Visible end Visible iff N is even.
C1_ToggleParity ==
    Live => \A c \in Inputs :
        (Quiet(c) /\ ToggleSignals = 1 /\ app.tray_action \in {TRAY_NONE, TRAY_TOGGLE})
        => LET w == update(World, c)
           IN  /\ w.app.is_visible = ~app.is_visible
               /\ ~w.app.toggle_signal
               /\ w.hotkey_events = 0
               /\ w.app.tray_action = TRAY_NONE

\* the window was hidden by an earlier toggle and a hotkey event shows it
C1_Witness ==
    /\ Live /\ ~app.is_visible /\ hotkey_events = 1 /\ ToggleSignals = 1
    /\ \E c \in Inputs : Quiet(c) /\ update(World, c).app.is_visible

\* C2: in every tick in which, at the auto-hide check, dragging is true or
\* the settings panel is open or a parameter prompt is pending, the
\* auto-hide call of hide is not made and the check leaves the visibility
\* flag alone, also on a true->false focus transition.
C2_NoAutoHideWhileSuppressed ==
    Live => \A c \in Inputs :
        LET b == update_to_drag_end(World, c)
            a == update_auto_hide(b, c)
        IN  (b.app.dragging \/ b.app.settings_open \/ b.app.pending_w)
            => /\ "auto_hide" \notin a.fx.calls
               /\ a.app.is_visible = b.app.is_visible
               /\ "auto_hide" \notin update(World, c).fx.calls

\* focus drops while the window is dragged and hide_on_inactive is set
C2_Witness ==
    /\ Live
    /\ \E c \in Inputs :
        LET b == update_to_drag_end(World, c)
        IN  /\ b.app.dragging /\ b.app.is_visible /\ b.app.was_focused
            /\ b.app.settings.hide_on_inactive /\ ~c.focused
            /\ update_auto_hide(b, c).app.is_visible

\* C3: with the window Visible in the command bar and no signal waiting, the
\* tick that sees the pointer press outside the text edit and every tick
\* while dragging is set keep the window Visible and make no auto-hide call,
\* whatever the focus is in that tick (so also when the press and the focus
\* drop are seen in the same tick).
C3_DragKeepsVisible ==
    (run = "running") => \A c \in Inputs :
        (/\ app.is_visible /\ ~app.settings_open /\ ~app.pending_w
         /\ ToggleSignals = 0 /\ app.tray_action = TRAY_NONE
         /\ ~c.enter /\ ~c.escape
         /\ (c.pressed \/ app.dragging))
        => LET w == update(World, c)
           IN  w.app.is_visible /\ "auto_hide" \notin w.fx.calls

\* C4: when the window is Hidden and the FIFO reader has set the toggle flag,
\* the next tick shows the window at the FIFO step: the flag becomes Visible,
\* the compositor Activate is issued, and the X11 activation is issued for
\* the stored window id exactly when one is stored; with no further toggle
\* and no key in that tick the window is Visible when the tick ends.
C4_PipeWriteShows ==
    (Live /\ ~app.is_visible /\ app.toggle_signal) => \A c \in LocatorInputs :
        LET p == update_to_poll(World, c)
            t == update_to_pipe(World, c)
        IN  /\ t.app.is_visible
            /\ ~t.app.toggle_signal
            /\ {"show", "Activate"} \subseteq t.fx.calls
            /\ t.fx.activated = p.app.x11_window_id
            /\ ("x11_activate" \in t.fx.calls) <=> (p.app.x11_window_id # 0)
            /\ (hotkey_events = 0 /\ app.tray_action # TRAY_TOGGLE /\ Quiet(c))
               => update(World, c).app.is_visible

\* Hidden, the flag set by a write, and a window id stored for the activation
C4_Witness ==
    /\ Live /\ ~app.is_visible /\ app.toggle_signal
    /\ \E c \in LocatorInputs :
        /\ update_to_pipe(World, c).fx.activated \in Handles
        /\ update(World, c).app.is_visible

\* the committed command is a $W$ magic word without arguments
PromptCommit(c) ==
    c.enter /\ ~c.escape /\ c.cmd.first = "magic" /\ ~c.cmd.args /\ c.cmd.needs_w

\* C5: Enter on a magic word that needs $W$ input, without arguments, in the
\* Visible command bar makes no hide call: it records the pending prompt and
\* the window is Visible when the tick ends; and a tick that starts Visible
\* with the prompt pending and no toggle signal waiting, and ends with the
\* prompt still pending, ends Visible whatever the focus does.
C5_PromptKeepsVisible ==
    Live => \A c \in Inputs :
        LET h == update_head(World, c)
            w == update(World, c)
        IN  /\ (/\ PromptCommit(c) /\ h.app.is_visible
                /\ ~h.app.settings_open /\ ~h.app.pending_w)
               => /\ w.app.pending_w
                  /\ w.app.is_visible
                  /\ "prompt_opened" \in w.fx.calls
                  /\ w.fx.calls \cap {"hide", "command_run"} = h.fx.calls \cap {"hide"}
            /\ (/\ app.pending_w /\ app.is_visible /\ ToggleSignals = 0
                /\ w.app.pending_w)
               => w.app.is_visible /\ "hide" \notin w.fx.calls

\* the prompt is pending, the window had focus, and focus drops
C5_Witness ==
    /\ Live /\ app.pending_w /\ app.is_visible /\ app.was_focused
    /\ app.settings.hide_on_inactive /\ ~app.settings_open /\ ToggleSignals = 0
    /\ \E c \in Inputs :
        ~c.focused /\ update(World, c).app.pending_w /\ update(World, c).app.is_visible

\* C6: once the stored window id is non-zero no step changes it, and the
\* lookup is not run again (the attempt counter, incremented by every run
\* of the lookup, stays as it is).
C6_HandleStable ==
    [][app.x11_window_id # 0
       => /\ app'.x11_window_id = app.x11_window_id
          /\ app'.x11_search_attempts = app.x11_search_attempts]_vars

\* the id was stored after a failed attempt, attempts are left, and ticks
\* and signals have gone by since
C6_Witness ==
    /\ app.x11_window_id = MaxHandle
    /\ app.x11_search_attempts \in 2..(MaxSearchAttempts - 1)
    /\ ~app.is_visible /\ app.toggle_signal

\* C7: the persisted window_x, window_y change only in a tick that makes a
\* Hide or a Quit, or by the tray's Quit; no other tick (position polling,
\* Show, Save & Close, opening the settings) and no other tray item changes
\* them.
C7_PositionWrittenOnlyByHideOrQuit ==
    Live =>
        /\ \A c \in PositionInputs :
            LET w == frame(World, c)
            IN  PersistedPos(w.disk) # PersistedPos(disk)
                => w.fx.calls \cap {"hide", "quit"} # {}
        /\ \A id \in MenuIds :
            PersistedPos(tray_menu_handler(World, id).disk) # PersistedPos(disk)
            => id = "quit"

\* the cached position as the pair of options the settings hold
CachedPos(a) == <<Some(Unwrap(a.last_known_pos)[1]), Some(Unwrap(a.last_known_pos)[2])>>

\* C8: hide called with the cached position (x, y) leaves window_x = x and
\* window_y = y in the settings and in the settings file, for every cached
\* value; a tick that hides and does not save the settings panel ends with
\* exactly that in the file.
C8_HidePersistsCached ==
    Live => \A c \in PositionInputs :
        LET p == update_to_poll(World, c)
            h == hide(p, c)
            w == update(World, c)
        IN  IsSome(p.app.last_known_pos)
            => /\ PersistedPos(h.disk) = CachedPos(p.app)
               /\ PersistedPos(h.app.settings) = CachedPos(p.app)
               /\ "fresh_query" \notin h.fx.calls
               /\ ("hide" \in w.fx.calls /\ "apply_settings" \notin w.fx.calls)
                  => PersistedPos(w.disk) = CachedPos(p.app)

\* a tick hides the window with a position cached by an earlier tick that
\* differs from the persisted one and has different coordinates
C8_Witness ==
    /\ Live
    /\ \E c \in PositionInputs :
        LET p == update_to_poll(World, c)
            w == update(World, c)
        IN  /\ IsSome(app.last_known_pos)
            /\ p.app.last_known_pos = app.last_known_pos
            /\ Unwrap(p.app.last_known_pos)[1] # Unwrap(p.app.last_known_pos)[2]
            /\ "hide" \in w.fx.calls
            /\ PersistedPos(disk) # CachedPos(p.app)
            /\ PersistedPos(w.disk) = CachedPos(p.app)

\* C9: a Quit with a cached position available, from the quit command or
\* from the tray's Quit item, persists exactly the cached position and makes
\* no fresh position query.
C9_QuitPersistsCached ==
    Live =>
        /\ IsSome(app.last_known_pos)
           => LET w == tray_menu_handler(World, "quit")
              IN  /\ PersistedPos(w.disk) = CachedPos(app)
                  /\ "fresh_query" \notin w.fx.calls
        /\ \A c \in PositionInputs :
            LET p == update_to_poll(World, c)
                w == update(World, c)
            IN  (IsSome(p.app.last_known_pos) /\ "quit" \in w.fx.calls)
                => /\ PersistedPos(w.disk) = CachedPos(p.app)
                   /\ "fresh_query" \notin w.fx.calls

\* C10: once a Quit has been processed (Close is requested), a later tick
\* that gets no key or pointer input and keeps the focus processes no
\* toggle and no tray action and leaves the visibility flag as it is.
C10_QuitIsTerminal ==
    (run = "closing") => \A c \in Inputs :
        (Quiet(c) /\ c.focused)
        => LET w == frame(World, c)
           IN  /\ w.app.is_visible = app.is_visible
               /\ w.fx.calls \cap {"toggle", "show", "hide"} = {}

\* C11: once the process has ended through a Quit (the quit command's Close
\* or the tray's Quit), the FIFO endpoint does not exist; it is removed when
\* the Quit is processed, and once removed no step creates it again.
C11_PipeRemovedOnQuit ==
    /\ [](run # "running" => ~pipe_exists)
    /\ [][~pipe_exists => ~pipe_exists']_vars

\* the process has ended through a Quit after ticks in which the window was
\* looked up and hidden
C11_Witness ==
    /\ run = "exited" /\ ~pipe_exists
    /\ app.x11_search_attempts > 0 /\ ~app.is_visible

\* the triggers that can arrive between two ticks, and their producers
Arrivals == {"pipe", "hotkey", "show_hide", "settings"}

Producer(a) == IF a \in MenuIds THEN "tray" ELSE a

Arrive(w, a) ==
    IF a = "pipe" THEN pipe_listener_read(w)
    ELSE IF a = "hotkey" THEN hotkey_listener_event(w)
    ELSE tray_menu_handler(w, a)

\* no signal is waiting and every producer can deliver
NoSignalWaiting ==
    /\ run = "running" /\ pipe_exists
    /\ ToggleSignals = 0 /\ app.tray_action = TRAY_NONE

\* C12: two triggers that arrive between two ticks, from the same producer
\* or from different ones, are processed by the next tick as two events.
C12_NoCoalescing ==
    NoSignalWaiting => \A a, b \in Arrivals : \A c \in HeadInputs({OwnWindow}, {None}) :
        Len(update_to_tray(Arrive(Arrive(World, a), b), c).fx.processed) = 2

\* C13: two triggers that arrive between two ticks and are both processed
\* by the next tick are processed in their order of arrival.
C13_ArrivalOrder ==
    NoSignalWaiting => \A a, b \in Arrivals : \A c \in HeadInputs({OwnWindow}, {None}) :
        LET done == update_to_tray(Arrive(Arrive(World, a), b), c).fx.processed
        IN  Len(done) = 2 => done = <<Producer(a), Producer(b)>>

\* C14: every step leaves the attempt counter of the window lookup as it is
\* or adds one to it (one lookup per tick at most), the counter never
\* exceeds 10, a lookup is run only while the stored id is 0, and once 10
\* lookups have failed no further one is run and the id stays 0.
C14_LookupBounded ==
    [][/\ app'.x11_search_attempts \in
            {app.x11_search_attempts, app.x11_search_attempts + 1}
       /\ app'.x11_search_attempts <= MaxSearchAttempts
       /\ app'.x11_search_attempts # app.x11_search_attempts
          => app.x11_window_id = 0
       /\ (app.x11_search_attempts = MaxSearchAttempts /\ app.x11_window_id = 0)
          => /\ app'.x11_window_id = 0
             /\ app'.x11_search_attempts = MaxSearchAttempts]_vars

\* ten lookups have failed and a later tick has hidden the window
C14_Witness ==
    /\ app.x11_search_attempts = MaxSearchAttempts /\ app.x11_window_id = 0
    /\ ~app.is_visible /\ app.was_focused

\* C15: in a tick in which the window id is still 0 after the lookup step,
\* one toggle signal from the FIFO or the tray flips the visibility flag, a
\* show issues the compositor's MoveWindow and Activate calls, and neither
\* the X11 activation nor the X11 always-on-top request is issued; the tray
\* handler hands its action over without an X11 activation.
C15_WorksWithoutHandle ==
    Live => \A c \in LocatorInputs :
        LET w == update(World, c)
        IN  update_locate(World, c).app.x11_window_id = 0
            => /\ w.fx.calls \cap {"x11_activate", "x11_always_on_top"} = {}
               /\ w.fx.activated = 0
               /\ "show" \in w.fx.calls => {"MoveWindow", "Activate"} \subseteq w.fx.calls
               /\ (Quiet(c) /\ ToggleSignals = 1 /\ hotkey_events = 0
                   /\ app.tray_action \in {TRAY_NONE, TRAY_TOGGLE})
                  => w.app.is_visible = ~app.is_visible
               /\ \A id \in {"show_hide", "settings"} :
                    LET t == tray_menu_handler(World, id)
                    IN  /\ "x11_activate" \notin t.fx.calls
                        /\ t.app.tray_action # TRAY_NONE

\* every lookup has failed, the window is hidden and the tray's show_hide
\* is waiting: the tick shows the window through the compositor
C15_Witness ==
    /\ Live /\ app.x11_window_id = 0
    /\ app.x11_search_attempts = MaxSearchAttempts
    /\ ~app.is_visible /\ app.tray_action = TRAY_TOGGLE /\ ToggleSignals = 1
    /\ \E c \in LocatorInputs :
        /\ update(World, c).app.is_visible
        /\ "Activate" \in update(World, c).fx.calls

PollerQueries(w, over, q) ==
    "poll_query" \in update_to_poll([w EXCEPT !.fx = NoFx],
                        [BaseCtx EXCEPT !.elapsed = over, !.qpos = q]).fx.calls

\* C17: a tick that comes less than the interval after a tick in which the
\* poller has queried the position does not query it again, whatever the
\* earlier query has answered.
C17_QueryInterval ==
    Live => \A c \in PositionInputs :
        LET w == frame(World, c)
        IN  ("poll_query" \in w.fx.calls /\ w.run = "running")
                => \A q \in OptPositions : ~PollerQueries(w, FALSE, q)

\* C18: the tick that follows a tick which has made the window visible
\* queries the position, however short the time since the last query.
C18_QueryOnBecomingVisible ==
    (Live /\ ~app.is_visible) => \A c \in PositionInputs :
        LET w == frame(World, c)
        IN  (w.app.is_visible /\ w.run = "running")
                => \A over \in BOOLEAN, q \in OptPositions : PollerQueries(w, over, q)

\* no position is cached: neither by the poller nor in the shared position
\* bits the tray handler reads
NothingCached(a) ==
    ~IsSome(a.last_known_pos) /\ a.shared_pos_x = 0 /\ a.shared_pos_y = 0

\* C19: hide and quit called with no cached position, when the query they
\* fall back to fails, do not write the settings file and leave window_x
\* and window_y of the settings and of the file as they are; so does every
\* tick that hides or quits in this case, and so does the tray's Quit when
\* no position is cached.
C19_PersistenceSkipped ==
    Live =>
        /\ ~IsSome(app.last_known_pos) => \A c \in PositionInputs :
            LET p == update_to_poll(World, c)
                h == hide(p, c)
                k == quit(p, c)
                w == update(World, c)
            IN  (~IsSome(p.app.last_known_pos) /\ ~IsSome(c.spos))
                => /\ "save" \notin h.fx.calls /\ "fresh_query" \in h.fx.calls
                   /\ h.disk = p.disk /\ h.app.settings = p.app.settings
                   /\ "save" \notin k.fx.calls /\ "fresh_query" \in k.fx.calls
                   /\ k.disk = p.disk /\ k.app.settings = p.app.settings
                   /\ (w.fx.calls \cap {"hide", "quit"} # {} /\ "apply_settings" \notin w.fx.calls)
                      => /\ "save" \notin w.fx.calls
                         /\ w.disk = disk
                         /\ PersistedPos(w.app.settings) = PersistedPos(app.settings)
        /\ NothingCached(app)
           => LET t == tray_menu_handler(World, "quit")
              IN  "save" \notin t.fx.calls /\ t.disk = disk

\* after a tick in which the poller got no position, with a position in the
\* settings file, a tick hides the window and its fallback query fails too
C19_Witness ==
    /\ Live /\ app.x11_search_attempts > 0
    /\ NothingCached(app)
    /\ IsSome(disk.window_x)
    /\ \E c \in PositionInputs :
        LET w == update(World, c)
        IN  /\ ~IsSome(update_to_poll(World, c).app.last_known_pos)
            /\ ~IsSome(c.spos)
            /\ {"hide", "fresh_query"} \subseteq w.fx.calls
            /\ "save" \notin w.fx.calls

\* C20: a tick that moves the window calls the compositor's MoveWindow and
\* no tick sends the toolkit a position for the window.
C20_MoveOnlyViaCompositor ==
    Live => \A c \in Inputs :
        LET w == update(World, c)
        IN  /\ "show" \in w.fx.calls => "MoveWindow" \in w.fx.calls
            /\ "OuterPosition" \notin w.fx.calls

\* C21: the only call of a tick that waits for the helper process it has
\* started is the move to the saved position after the first focus.
C21_TickNeverWaits ==
    Live => \A c \in PositionInputs :
        update(World, c).fx.calls \cap BlockingCalls \subseteq {"MoveWindow_blocking"}

\* C22: the process never ends by a panic, whatever the services called at
\* startup answer.
C22_NoPanic == run # "panicked"

\* C23: when a tick hides the window (settings panel closed) while the
\* window is at the position actual, which every position query of that
\* tick reports, a Show that follows moves the window to actual.
C23_ShownWhereHidden ==
    (Live /\ app.is_visible) => \A c \in PositionInputs : \A actual \in Positions :
        LET w == frame(World, c)
        IN  (/\ "hide" \in w.fx.calls /\ ~w.app.is_visible
             /\ ~w.app.settings_open /\ w.run = "running"
             /\ "poll_query" \in w.fx.calls => c.qpos = Some(actual)
             /\ "fresh_query" \in w.fx.calls => c.spos = Some(actual))
            => show([w EXCEPT !.fx = NoFx], BaseCtx).fx.moved_to = Some(actual)

\* C24: a step of a producer changes nothing but the producer's own flag,
\* queue or slot: it makes no external call, leaves the settings file, the
\* FIFO and the visibility flag as they are and does not end the process.
C24_ProducersOnlySignal ==
    Live =>
        /\ pipe_listener_read(World) = [World EXCEPT !.app.toggle_signal = TRUE]
        /\ hotkey_listener_event(World) = [World EXCEPT !.hotkey_events = @ + 1]
        /\ \A id \in MenuIds :
            LET t == tray_menu_handler(World, id)
            IN  t = [World EXCEPT !.app.tray_action = t.app.tray_action]

\* the windows on the path from w up to the root, w included
RECURSIVE AncestorsOrSelf(_, _)
AncestorsOrSelf(tree, w) ==
    IF w = 0 THEN {} ELSE {w} \cup AncestorsOrSelf(tree, tree[w])

\* C25: on every window tree and for every focus value f, the lookup
\* returns not-found when f names no window or is the root, f when f is a
\* child of the root, and otherwise the window on the path from f to the
\* root whose parent is a child of the root.
C25_LookupFindsClient ==
    LookupAttempted => \A tree \in XTrees, f \in FocusValues :
        LET found == find_own_x11_window_inner(tree, f)
        IN  IF f <= 1 \/ f = XRoot THEN found = 0
            ELSE IF tree[f] = XRoot THEN found = f
            ELSE /\ found \in AncestorsOrSelf(tree, f)
                 /\ tree[found] # XRoot
                 /\ tree[tree[found]] = XRoot

\* a lookup is made after an earlier one has failed, and there are trees
\* where the focus is the client window itself and trees where it is a
\* window below the client window
C25_Witness ==
    /\ LookupAttempted /\ app.x11_search_attempts > 0
    /\ \E tree \in XTrees, f \in FocusValues :
        /\ f > XRoot /\ tree[f] # XRoot
        /\ find_own_x11_window_inner(tree, f) = f
    /\ \E tree \in XTrees, f \in FocusValues :
        /\ f > XRoot /\ tree[f] # XRoot
        /\ find_own_x11_window_inner(tree, f) # f

\* C26: when the connection to the X server is made, the activation of the
\* stored window makes each of its four requests, whichever of its calls
\* fail.
C26_StepsIndependent ==
    (Live /\ app.x11_window_id # 0) =>
        \A failing \in SUBSET {ActivationSteps[i] : i \in 2..Len(ActivationSteps)} :
            {"map_window", "configure_window", "send_event", "set_input_focus"}
                \subseteq activation_attempts(failing, 1)

C28_ShowResetsFocus ==
    Live => \A c \in Inputs :
        LET w == update(World, c)
        IN  /\ ~show(World, c).app.was_focused
            /\ ~show([World EXCEPT !.app.was_focused = TRUE], c).app.was_focused
            /\ "show" \in w.fx.calls => "auto_hide" \notin w.fx.calls

\* the window is hidden with was_focused set and auto-hide armed, and a
\* tick without focus shows it and leaves it visible
C28_Witness ==
    /\ Live /\ ~app.is_visible /\ app.was_focused
    /\ app.settings.hide_on_inactive /\ ~app.settings_open /\ ~app.pending_w
    /\ \E c \in Inputs :
        LET w == update(World, c)
        IN  ~c.focused /\ "show" \in w.fx.calls /\ w.app.is_visible

\* C29: hide called on the visible window leaves was_focused and dragging
\* at FALSE, and so does every tick that hides the window.
C29_HideClearsFocusState ==
    (Live /\ app.is_visible) => \A c \in Inputs :
        LET h == hide(World, c)
            w == update(World, c)
        IN  /\ ~h.app.was_focused /\ ~h.app.dragging
            /\ ("hide" \in w.fx.calls /\ ~w.app.is_visible)
               => (~w.app.was_focused /\ ~w.app.dragging)

\* the auto-hide check of the tick that starts in w is armed
AutoHideArmed(w) ==
    /\ w.app.settings.hide_on_inactive /\ w.app.is_visible
    /\ ~w.app.settings_open /\ ~w.app.dragging /\ ~w.app.pending_w

C31_DraggingNeedsFocusLoss ==
    (Live /\ ~app.dragging) => \A c \in Inputs :
        LET w == frame(World, c)
        IN  (c.focused /\ w.run = "running")
            => /\ ~w.app.dragging
               /\ (/\ c.pressed /\ w.app.was_focused /\ w.app.is_visible
                   /\ w.app.settings.hide_on_inactive
                   /\ ~w.app.settings_open /\ ~w.app.pending_w)
                  => "auto_hide" \in update([w EXCEPT !.fx = NoFx], BaseCtx).fx.calls

\* C32: with hide_on_inactive set, the window visible, the panel closed, no
\* drag, no prompt and no signal waiting, a tick that finds the focus gone
\* after a tick that had it hides the window by the auto-hide, and at its
\* end the settings and the settings file hold the cached position, or with
\* nothing cached the position the fallback query reports.
C32_FocusLossHides ==
    (/\ Live /\ app.is_visible /\ app.settings.hide_on_inactive
     /\ ~app.settings_open /\ ~app.dragging /\ ~app.pending_w
     /\ app.was_focused
     /\ ToggleSignals = 0 /\ app.tray_action = TRAY_NONE)
    => \A c \in PositionInputs :
        ~c.focused =>
            LET p == update_to_poll(World, c)
                w == update(World, c)
            IN  /\ ~w.app.is_visible
                /\ "auto_hide" \in w.fx.calls
                /\ IsSome(p.app.last_known_pos)
                   => /\ PersistedPos(w.disk) = CachedPos(p.app)
                      /\ PersistedPos(w.app.settings) = CachedPos(p.app)
                /\ (~IsSome(p.app.last_known_pos) /\ IsSome(c.spos))
                   => /\ PersistedPos(w.disk) = <<Some(AsF32(Unwrap(c.spos)[1])),
                                                  Some(AsF32(Unwrap(c.spos)[2]))>>
                      /\ PersistedPos(w.app.settings) = PersistedPos(w.disk)

\* the focus is lost with a cached position that is not the persisted one
C32_Witness ==
    /\ Live /\ app.is_visible /\ app.settings.hide_on_inactive
    /\ ~app.settings_open /\ ~app.dragging /\ ~app.pending_w
    /\ app.was_focused
    /\ ToggleSignals = 0 /\ app.tray_action = TRAY_NONE
    /\ IsSome(app.last_known_pos)
    /\ PersistedPos(disk) # CachedPos(app)
    /\ \E c \in PositionInputs :
        /\ ~c.focused /\ ~c.elapsed
        /\ ~update(World, c).app.is_visible

\* C33: the flag of the initial move is set at startup exactly when the
\* settings file holds window_x and window_y, and it is never set again; a
\* tick makes the blocking MoveWindow call only with the flag set and the
\* focus, and every tick with the focus leaves the flag cleared: the call
\* is made in the first tick with focus and in no later one.
C33_InitialMoveOnce ==
    /\ app.needs_initial_move = (IsSome(disk.window_x) /\ IsSome(disk.window_y))
    /\ [](Live => \A c \in Inputs :
            LET w == update(World, c)
            IN  /\ "MoveWindow_blocking" \in w.fx.calls
                   => (app.needs_initial_move /\ c.focused)
                /\ c.focused => ~w.app.needs_initial_move)
    /\ [][app.needs_initial_move' => app.needs_initial_move]_vars

\* after a tick without focus the flag is still set, and a tick with focus
\* makes the call
C33_Witness ==
    /\ Live /\ app.needs_initial_move /\ app.x11_search_attempts > 0
    /\ \E c \in Inputs : "MoveWindow_blocking" \in update(World, c).fx.calls

\* C34: a tick in which the writes of the settings file fail ends with the
\* same in-memory state as the tick with successful writes; and when the
\* file lags behind the position in memory, the next hide or quit (quit
\* command or tray Quit) with a working file system leaves the cached
\* position in the file.
C34_FailedWriteRetried ==
    Live =>
        /\ \A c \in PositionInputs : \A f \in FsAnswers :
            LET good == update(World, c)
                bad == update([World EXCEPT !.fs = f], c)
            IN  bad.app = good.app /\ bad.run = good.run
        /\ (IsSome(app.last_known_pos) /\ PersistedPos(disk) # PersistedPos(app.settings))
           => /\ \A c \in PositionInputs :
                    LET p == update_to_poll(World, c)
                        w == update(World, c)
                    IN  (w.fx.calls \cap {"hide", "quit"} # {} /\ "apply_settings" \notin w.fx.calls)
                        => PersistedPos(w.disk) = CachedPos(p.app)
              /\ PersistedPos(tray_menu_handler(World, "quit").disk) = CachedPos(app)

\* the positions that were, at one moment of the tick with operations ops,
\* the cached position: the one at its start and the one after each pair
\* of stores
CachedMoments(a, ops) ==
    {<<a.shared_pos_x, a.shared_pos_y>>}
    \cup {<<ops[i].v, ops[i + 1].v>> :
            i \in {j \in 1..(Len(ops) - 1) : ops[j].op = "store_x"}}

\* C35: the position the tray's Quit handler persists is never a torn pair:
\* under every schedule of its two loads among the stores of update, the
\* pair it writes was the cached position at one moment.
C35_QuitPairNotTorn ==
    Live =>
        \A c \in RaceInputs :
            \A m \in QuitDuring(c) :
                m.wrote => <<m.hx, m.hy>> \in CachedMoments(app, update(World, c).fx.ops)

\* the persisted settings other than the window position
OtherFields(d) == <<d.hide_on_inactive, d.stay_on_top>>

\* C36: the tray's Quit changes only window_x and window_y of the persisted
\* settings: under every schedule of its load-modify-save among the settings
\* writes of update, every other persisted field has at exit the value
\* update has saved last.
C36_QuitKeepsOtherFields ==
    Live =>
        \A c \in RaceInputs :
            \A m \in QuitDuring(c) : OtherFields(m.disk) = OtherFields(m.tick_saved)

\* C37: Save & Close leaves the window position unchanged: after
\* apply_settings the window_x, window_y of the settings in memory and of
\* the settings file are those of just before the call, also when a Hide
\* has persisted a new position while the panel was open.
C37_ApplyKeepsPosition ==
    Live =>
        \A c \in PositionInputs :
            LET before == update_head(World, c)
                after == update(World, c)
            IN  "apply_settings" \in after.fx.calls
                => /\ PersistedPos(after.app.settings) = PersistedPos(before.app.settings)
                   /\ PersistedPos(after.disk) = PersistedPos(before.disk)

\* the toggles update has made for the FIFO flag
PipeToggles(w) ==
    Cardinality({i \in 1..Len(w.fx.processed) : w.fx.processed[i] = "pipe"})

\* C38: a FIFO signal is not lost and not used twice.  When the reader
\* thread stores the flag during a tick, then either the store comes before
\* the swap and this tick makes one toggle for it and leaves the flag
\* clear, or it comes after the swap and the flag stays set to the end of
\* the tick, and the next tick makes one toggle for it and leaves the flag
\* clear; a tick that finds the flag clear makes no toggle for it.
C38_PipeSignalKept ==
    (run = "running" /\ pipe_exists) =>
        \A c \in RaceInputs :
            LET early == update_store_racing(World, c, TRUE)
                late == update_store_racing(World, c, FALSE)
                next == update([late EXCEPT !.fx = NoFx], BaseCtx)
            IN  /\ PipeToggles(early) = 1
                /\ ~early.app.toggle_signal
                /\ PipeToggles(late) = (IF app.toggle_signal THEN 1 ELSE 0)
                /\ late.app.toggle_signal
                /\ PipeToggles(next) = 1
                /\ ~next.app.toggle_signal
                /\ PipeToggles(update([next EXCEPT !.fx = NoFx], BaseCtx)) = 0

\* the store falls after the swap of a tick that found the flag clear
C38_Witness ==
    /\ run = "running" /\ pipe_exists /\ ~app.toggle_signal
    /\ \E c \in RaceInputs :
          /\ update_store_racing(World, c, FALSE).app.toggle_signal
          /\ PipeToggles(update_store_racing(World, c, FALSE)) = 0
          /\ PipeToggles(update_store_racing(World, c, TRUE)) = 1

\* C39: one press of the hotkey that delivers both a FIFO write (the desktop
\* shortcut) and a hotkey event makes one toggle: the tick that sees both,
\* with no key, pointer or focus change, ends with is_visible flipped.
C39_OnePressOneToggle ==
    NoSignalWaiting =>
        \A c \in Inputs :
            (Quiet(c) /\ c.focused = app.was_focused)
            => update(Arrive(Arrive(World, "pipe"), "hotkey"), c).app.is_visible
                   = ~app.is_visible

\* what makes update hide the window other than the auto-hide: a toggle
\* signal, Escape, a command that was run, a parameter prompt that was
\* completed
HideCauses == {"toggle", "escape_hide", "command_run", "prompt_done"}

\* C40: while the hide_on_inactive setting is false no tick makes the
\* auto-hide call, whatever the focus does; a tick that takes the window
\* from Visible to Hidden has a toggle signal, Escape, a completed command
\* or a completed parameter prompt, and a tick with none of them leaves a
\* Visible window Visible.
C40_NoAutoHideWhenDisabled ==
    (Live /\ ~app.settings.hide_on_inactive) =>
        \A c \in Inputs :
            LET w == update(World, c)
            IN  /\ "auto_hide" \notin w.fx.calls
                /\ (app.is_visible /\ ~w.app.is_visible)
                   => w.fx.calls \cap HideCauses # {}
                /\ (app.is_visible /\ Quiet(c) /\ ToggleSignals = 0
                      /\ app.tray_action = TRAY_NONE)
                   => w.app.is_visible

\* the setting is off and the focus leaves the visible command bar, with
\* nothing else that suppresses the auto-hide
C40_Witness ==
    /\ Live /\ ~app.settings.hide_on_inactive
    /\ app.is_visible /\ ~app.settings_open /\ ~app.dragging /\ ~app.pending_w
    /\ app.was_focused
    /\ ToggleSignals = 0 /\ app.tray_action = TRAY_NONE
    /\ \E c \in Inputs :
          /\ ~c.focused /\ Quiet(c)
          /\ update(World, c).app.is_visible
          /\ ~update(World, c).app.was_focused

====
